---------------------------- MODULE Spec2Model ----------------------------
(***************************************************************************)
(* Model of src/main.py: a Telegram bot that completes a project text with *)
(* a text-completion service, lays it out as a list of ReportLab flowables *)
(* (a table, or headings / paragraphs / spacers) and replies with the PDF. *)
(*                                                                         *)
(* A Python str is modelled as a sequence of one-character strings.        *)
(***************************************************************************)
EXTENDS Integers, Sequences, FiniteSets, TLC

(***************************************************************************)
(* Bounds of the model.                                                    *)
(***************************************************************************)
\* Longest content enumerated for generate_pdf / detect_table_data.
MaxLen == 5
\* Most leading (and trailing) blanks put around an enumerated line.
MaxPad == 1
\* How far beyond the heading threshold the enumerated lines reach.
MaxOver == 2
\* Longest free prefix of an enumerated line.
MaxHead == 2
\* Number of updates the delivery channel hands to the bot in one run.
MaxReq == 2
\* Flowables the layout engine fits on one page (stands for the frame height).
BlocksPerPage == 2

(***************************************************************************)
(* Characters.                                                             *)
(***************************************************************************)
NL == "\n"
SP == " "
COMMA == ","
\* str.isspace() characters of the alphabet
Whitespace == {SP, NL}
\* cased characters: one upper-case, one lower-case letter
Upper == {"A"}
Lower == {"b"}
\* every other character of the alphabets (",", "1", " ", "\n") has no case
\* alphabet of the enumerated contents
Chars == {"A", "b", COMMA, SP, NL}
\* alphabet of the enumerated single lines
LineChars == {"A", "b", "1"}

Strings(n) == UNION {[1..k -> Chars] : k \in 0..n}

\* Python's None
None == [is_none |-> TRUE, value |-> << >>]
Some(v) == [is_none |-> FALSE, value |-> v]
\* no result yet, and a returned bool
NoResult == [is_none |-> TRUE, value |-> FALSE]
Returned(b) == [is_none |-> FALSE, value |-> b]

(***************************************************************************)
(* str methods used by the program.                                        *)
(***************************************************************************)
\* The recursive ones are functions of str values.
Str == Seq(Chars \cup LineChars)

lstrip[s \in Str] ==
    IF s = << >> THEN s
    ELSE IF Head(s) \in Whitespace THEN lstrip[Tail(s)] ELSE s

rstrip[s \in Str] ==
    IF s = << >> THEN s
    ELSE IF s[Len(s)] \in Whitespace THEN rstrip[SubSeq(s, 1, Len(s) - 1)] ELSE s

\* str.strip()
strip(s) == rstrip[lstrip[s]]

\* index of the first occurrence of character c in s, 0 when there is none
find(s, c) ==
    IF \E i \in 1..Len(s) : s[i] = c
    THEN CHOOSE i \in 1..Len(s) : s[i] = c /\ \A j \in 1..(i - 1) : s[j] # c
    ELSE 0

\* c in s
contains(s, c) == find(s, c) # 0

\* str.split("\n") and str.split(",")
splitlines[s \in Str] ==
    IF find(s, NL) = 0 THEN << s >>
    ELSE << SubSeq(s, 1, find(s, NL) - 1) >>
         \o splitlines[SubSeq(s, find(s, NL) + 1, Len(s))]

splitcells[s \in Str] ==
    IF find(s, COMMA) = 0 THEN << s >>
    ELSE << SubSeq(s, 1, find(s, COMMA) - 1) >>
         \o splitcells[SubSeq(s, find(s, COMMA) + 1, Len(s))]

\* str.isupper(): at least one cased character and no lower-case one
isupper(s) ==
    /\ \E i \in 1..Len(s) : s[i] \in Upper
    /\ \A i \in 1..Len(s) : s[i] \notin Lower

(***************************************************************************)
(* PDF styles and flowables.                                               *)
(***************************************************************************)
heading_style ==
    [name |-> "HeadingStyle", fontName |-> "Helvetica-Bold", fontSize |-> 16,
     leading |-> 12, spaceAfter |-> 8]

body_style ==
    [name |-> "BodyStyle", fontName |-> "Helvetica", fontSize |-> 12,
     leading |-> 16, spaceAfter |-> 6]

NoStyle == [name |-> "", fontName |-> "", fontSize |-> 0, leading |-> 0, spaceAfter |-> 0]

\* Spacer(1, 8)
Spacer == [kind |-> "Spacer", text |-> << >>, style |-> NoStyle, data |-> << >>]
\* Paragraph(text, style)
Paragraph(text, style) ==
    [kind |-> "Paragraph", text |-> text, style |-> style, data |-> << >>]
\* Table(data, hAlign='LEFT') with the grid / header style of the program
Table(data) == [kind |-> "Table", text |-> << >>, style |-> NoStyle, data |-> data]

(***************************************************************************)
(* Utility functions.                                                      *)
(***************************************************************************)
HeadingThreshold == 60

is_heading_le(ln) ==
    IF Len(strip(ln)) <= HeadingThreshold
    THEN (IF isupper(strip(ln)) THEN TRUE ELSE FALSE)
    ELSE FALSE

is_heading(ln) ==
    IF Len(strip(ln)) < HeadingThreshold
    THEN (IF isupper(strip(ln)) THEN TRUE ELSE FALSE)
    ELSE FALSE

StripCells[cells \in Seq(Str)] ==
    IF cells = << >> THEN << >>
    ELSE << strip(Head(cells)) >> \o StripCells[Tail(cells)]

RowUnstripped(ln) == splitcells[ln]

\* [cell.strip() for cell in line.split(",")]
Row(ln) == StripCells[splitcells[ln]]

\* "," in line
HasComma(ln) == contains(ln, COMMA)

MinTableRows == 2

\* the loop of lines 111-114: a row for every line that holds a comma
TableRows[lines \in Seq(Str)] ==
    IF lines = << >> THEN << >>
    ELSE (IF HasComma(Head(lines)) THEN << Row(Head(lines)) >> ELSE << >>)
         \o TableRows[Tail(lines)]

detect_table_data(text) ==
    IF Len(TableRows[splitlines[strip(text)]]) >= MinTableRows
    THEN Some(TableRows[splitlines[strip(text)]])
    ELSE None

\* truth value of "if table_data:" (None and the empty list are false)
Truthy(opt) == ~opt.is_none /\ Len(opt.value) > 0

LineBlockDropBlank(ln) ==
    IF strip(ln) = << >> THEN << >>
    ELSE IF is_heading(ln) THEN << Paragraph(strip(ln), heading_style) >>
    ELSE << Paragraph(strip(ln), body_style) >>

\* the flowables one iteration of the "for line in lines" loop appends
LineBlock(ln) ==
    IF strip(ln) = << >> THEN << Spacer >>
    ELSE IF is_heading(ln) THEN << Paragraph(strip(ln), heading_style) >>
    ELSE << Paragraph(strip(ln), body_style) >>

TextModeElements[lines \in Seq(Str)] ==
    IF lines = << >> THEN << >>
    ELSE LineBlock(Head(lines)) \o TextModeElements[Tail(lines)]

AssembleBothModes(content, td) ==
    IF Truthy(td)
    THEN << Table(td.value) >> \o TextModeElements[splitlines[content]]
    ELSE TextModeElements[splitlines[content]]

\* generate_pdf, lines 144-171: the flowables appended to "elements"
Assemble(content, td) ==
    IF Truthy(td)
    THEN << Table(td.value) >>
    ELSE TextModeElements[splitlines[content]]

\* doc.build(elements), called without onFirstPage / onLaterPages: the layout
\* engine fills page after page in input order; "decorations" is what the page
\* callbacks drew on the page, and no callback is passed.
RECURSIVE Build(_)
Build(els) ==
    IF Len(els) <= BlocksPerPage
    THEN << [flowables |-> els, decorations |-> << >>] >>
    ELSE << [flowables |-> SubSeq(els, 1, BlocksPerPage), decorations |-> << >>] >>
         \o Build(SubSeq(els, BlocksPerPage + 1, Len(els)))

\* no document
NoDoc == << >>

(***************************************************************************)
(* Updates of the delivery channel and answers of the completion service.  *)
(***************************************************************************)
Req == 1..MaxReq

NoUpdate == [kind |-> "none", text |-> << >>]
StartCommand == [kind |-> "command", text |-> << "/", "s", "t", "a", "r", "t" >>]

\* text messages users send: a heading, a blank line and a body line; a table
\* of two rows; a single body line
Messages ==
    { << "A", NL, NL, "b" >>,
      << "A", COMMA, "b", NL, "b", COMMA, "A" >>,
      << "b" >> }

Updates == {StartCommand} \cup {[kind |-> "text", text |-> t] : t \in Messages}

\* response.text for a prompt holding text: the service returns the text as it
\* is or with a line added
Completions(text) == {text, text \o << NL, "b" >>}

\* what the service does with a call: it answers, it fails, it stays silent;
\* genai.configure(api_key=None) leaves the client without credentials and the
\* call fails
ServiceOutcomes(key) ==
    IF key = "present" THEN {"ok", "error", "no_answer"} ELSE {"error"}

UsageText == "Send me your project text."
ProcessingText == "Processing your project..."

VARIABLES
    api_key,         \* GEMINI_API_KEY: "present" or "absent"
    running,         \* main() built the application and polls
    scheduler,       \* "event_loop": handlers run on the one asyncio loop, one
                     \* update at a time; "any": every interleaving of the steps
    update,          \* update[r]: the update the channel delivered as r
    queue,           \* the application's update_queue
    pc,              \* pc[r]: position of the handler processing update r
    svc,             \* svc[r]: what the service does with r's call
    service_calls,   \* requests for which generate_content was invoked
    completed_text,  \* handle_text's local completed_text
    table_data,      \* generate_pdf's local table_data
    elements,        \* generate_pdf's local elements
    pdf_buffer,      \* handle_text's local pdf_buffer (the built pages)
    replies,         \* replies[r]: the texts sent to r's chat
    sent,            \* sent[r]: the document sent to r's chat
    line,            \* argument of is_heading
    heading          \* result of is_heading, None before the call

pipeVars ==
    << api_key, running, scheduler, update, queue, pc, svc, service_calls,
       completed_text, table_data, elements, pdf_buffer, replies, sent >>
fnVars == << line, heading >>
vars == << pipeVars, fnVars >>

\* handler positions that hold the event loop: synchronous code between awaits
Blocking == {"generate_content", "generate_pdf", "doc_build"}
\* handler positions of a handler that was started and has not ended
InFlight == {"start_reply", "processing_reply", "reply_document"} \cup Blocking

LoopBlocked == \E r \in Req : pc[r] \in Blocking
Active == {r \in Req : pc[r] \in InFlight}

\* a task of the loop can run
CanRun == scheduler = "any" \/ ~LoopBlocked
\* the update fetcher awaits the handler of one update before it takes the next
CanDispatch == scheduler = "any" \/ Active = {}


(***************************************************************************)
(* Initial states.                                                         *)
(***************************************************************************)
\* the module was imported (lines 37-62): the key was read from the
\* environment (BOT_TOKEN is taken to be set), nothing was received
InitPipe ==
    /\ api_key \in {"present", "absent"}
    /\ running = FALSE
    /\ update = [r \in Req |-> NoUpdate]
    /\ queue = << >>
    /\ pc = [r \in Req |-> "idle"]
    /\ svc = [r \in Req |-> "none"]
    /\ service_calls = {}
    /\ completed_text = [r \in Req |-> << >>]
    /\ table_data = [r \in Req |-> None]
    /\ elements = [r \in Req |-> << >>]
    /\ pdf_buffer = [r \in Req |-> NoDoc]
    /\ replies = [r \in Req |-> << >>]
    /\ sent = [r \in Req |-> NoDoc]

InitCommon == InitPipe /\ line = << >> /\ heading = NoResult

Init == InitCommon /\ scheduler = "event_loop"

InitFree == InitCommon /\ scheduler = "any"

(***************************************************************************)
(* main and the delivery channel.                                          *)
(***************************************************************************)
\* main(): build the application, register the two handlers, run_polling()
Main ==
    /\ ~running
    /\ running' = TRUE
    /\ UNCHANGED << api_key, scheduler, update, queue, pc, svc, service_calls,
                    completed_text, table_data, elements, pdf_buffer, replies,
                    sent, fnVars >>

\* the polling task of the loop fetches update u and puts it on the queue
Receive(r, u) ==
    /\ running
    /\ CanRun
    /\ pc[r] = "idle"
    /\ \A q \in Req : q < r => pc[q] # "idle"
    /\ update' = [update EXCEPT ![r] = u]
    /\ queue' = Append(queue, r)
    /\ pc' = [pc EXCEPT ![r] = "queued"]
    /\ UNCHANGED << api_key, running, scheduler, svc, service_calls,
                    completed_text, table_data, elements, pdf_buffer, replies,
                    sent, fnVars >>

\* the update fetcher takes the next update and starts its handler, which runs
\* to its first await: start to reply_text (line 184), handle_text to
\* reply_text (lines 195-197)
Dispatch ==
    /\ running
    /\ CanRun
    /\ CanDispatch
    /\ queue # << >>
    /\ LET r == Head(queue)
       IN  /\ pc' = [pc EXCEPT ![r] = IF update[r].kind = "command"
                                      THEN "start_reply"
                                      ELSE "processing_reply"]
           /\ queue' = Tail(queue)
    /\ UNCHANGED << api_key, running, scheduler, update, svc, service_calls,
                    completed_text, table_data, elements, pdf_buffer, replies,
                    sent, fnVars >>

(***************************************************************************)
(* start                                                                   *)
(***************************************************************************)
StartReplyDone(r) ==
    /\ CanRun
    /\ pc[r] = "start_reply"
    /\ replies' = [replies EXCEPT ![r] = Append(@, UsageText)]
    /\ pc' = [pc EXCEPT ![r] = "done"]
    /\ UNCHANGED << api_key, running, scheduler, update, queue, svc,
                    service_calls, completed_text, table_data, elements,
                    pdf_buffer, sent, fnVars >>

(***************************************************************************)
(* handle_text                                                             *)
(***************************************************************************)
\* reply_text returns; complete_text_with_gemini(user_text) is called and
\* blocks in model.generate_content(prompt) (lines 197-200, 85-97)
ReplyTextDone(r) ==
    /\ CanRun
    /\ pc[r] = "processing_reply"
    /\ replies' = [replies EXCEPT ![r] = Append(@, ProcessingText)]
    /\ service_calls' = service_calls \cup {r}
    /\ \E o \in ServiceOutcomes(api_key) : svc' = [svc EXCEPT ![r] = o]
    /\ pc' = [pc EXCEPT ![r] = "generate_content"]
    /\ UNCHANGED << api_key, running, scheduler, update, queue,
                    completed_text, table_data, elements, pdf_buffer, sent,
                    fnVars >>

\* the service answers: completed_text = response.text (lines 97-98, 200)
GenerateContentReturns(r) ==
    /\ pc[r] = "generate_content"
    /\ svc[r] = "ok"
    /\ \E t \in Completions(update[r].text) :
           completed_text' = [completed_text EXCEPT ![r] = t]
    /\ pc' = [pc EXCEPT ![r] = "generate_pdf"]
    /\ UNCHANGED << api_key, running, scheduler, update, queue, svc,
                    service_calls, table_data, elements, pdf_buffer, replies,
                    sent, fnVars >>

\* the call raises; handle_text has no try / except, the exception leaves the
\* handler and the application logs it
GenerateContentRaises(r) ==
    /\ pc[r] = "generate_content"
    /\ svc[r] = "error"
    /\ pc' = [pc EXCEPT ![r] = "raised"]
    /\ UNCHANGED << api_key, running, scheduler, update, queue, svc,
                    service_calls, completed_text, table_data, elements,
                    pdf_buffer, replies, sent, fnVars >>

\* the service stays silent: generate_content is called without a timeout
\* (line 97), so the call blocks for good unless the client library's own
\* deadline, if its build has one, raises
GenerateContentDeadline(r) ==
    /\ pc[r] = "generate_content"
    /\ svc[r] = "no_answer"
    /\ pc' = [pc EXCEPT ![r] = "raised"]
    /\ UNCHANGED << api_key, running, scheduler, update, queue, svc,
                    service_calls, completed_text, table_data, elements,
                    pdf_buffer, replies, sent, fnVars >>

SharedList(els, r) == els[(r % MaxReq) + 1]

\* elements = [] (line 137): a list of this call
NewList(els, r) == << >>

\* generate_pdf(completed_text), lines 126-171: detect the table, assemble
\* the flowables
GeneratePdfAssemble(r) ==
    /\ pc[r] = "generate_pdf"
    /\ LET td == detect_table_data(completed_text[r])
       IN  /\ table_data' = [table_data EXCEPT ![r] = td]
           /\ elements' = [elements EXCEPT ![r] =
                  NewList(elements, r) \o Assemble(completed_text[r], td)]
    /\ pc' = [pc EXCEPT ![r] = "doc_build"]
    /\ UNCHANGED << api_key, running, scheduler, update, queue, svc,
                    service_calls, completed_text, pdf_buffer, replies, sent,
                    fnVars >>

\* generate_pdf, lines 173-176, and the call of reply_document (line 205)
GeneratePdfBuild(r) ==
    /\ pc[r] = "doc_build"
    /\ pdf_buffer' = [pdf_buffer EXCEPT ![r] = Build(elements[r])]
    /\ pc' = [pc EXCEPT ![r] = "reply_document"]
    /\ UNCHANGED << api_key, running, scheduler, update, queue, svc,
                    service_calls, completed_text, table_data, elements,
                    replies, sent, fnVars >>

\* reply_document returns: the chat has the document
ReplyDocumentDone(r) ==
    /\ CanRun
    /\ pc[r] = "reply_document"
    /\ sent' = [sent EXCEPT ![r] = pdf_buffer[r]]
    /\ pc' = [pc EXCEPT ![r] = "done"]
    /\ UNCHANGED << api_key, running, scheduler, update, queue, svc,
                    service_calls, completed_text, table_data, elements,
                    pdf_buffer, replies, fnVars >>

\* the steps of the handler of update r
HandlerStep(r) ==
    \/ StartReplyDone(r)
    \/ ReplyTextDone(r)
    \/ GenerateContentReturns(r)
    \/ GenerateContentRaises(r)
    \/ GeneratePdfAssemble(r)
    \/ GeneratePdfBuild(r)
    \/ ReplyDocumentDone(r)

ReceiveAny == \E r \in Req, u \in Updates : Receive(r, u)

Next ==
    \/ Main
    \/ ReceiveAny
    \/ Dispatch
    \/ \E r \in Req : HandlerStep(r)
    \/ \E r \in Req : GenerateContentDeadline(r)

\* the bot on its event loop
Spec == Init /\ [][Next]_vars

\* a step of the event loop: it runs main, starts the next handler or resumes
\* one
LoopStep == Main \/ Dispatch \/ \E r \in Req : HandlerStep(r)

\* the loop runs a task whenever one can run; users need not write, and a
\* silent service need not be cut off
Fairness == WF_vars(LoopStep)

FairSpec == Spec /\ Fairness

\* the same steps under every interleaving
SpecFree == InitFree /\ [][Next]_vars


(***************************************************************************)
(* generate_pdf on every content up to MaxLen characters: the handler of   *)
(* update 1 received completed_text from the service and is about to call  *)
(* generate_pdf.                                                           *)
(***************************************************************************)
InitPdf ==
    /\ api_key = "present"
    /\ running = TRUE
    /\ scheduler = "event_loop"
    /\ update = [r \in Req |-> IF r = 1 THEN [kind |-> "text", text |-> << "b" >>]
                                        ELSE NoUpdate]
    /\ queue = << >>
    /\ pc = [r \in Req |-> IF r = 1 THEN "generate_pdf" ELSE "idle"]
    /\ svc = [r \in Req |-> IF r = 1 THEN "ok" ELSE "none"]
    /\ service_calls = {1}
    /\ \E t \in Strings(MaxLen) :
           completed_text = [r \in Req |-> IF r = 1 THEN t ELSE << >>]
    /\ table_data = [r \in Req |-> None]
    /\ elements = [r \in Req |-> << >>]
    /\ pdf_buffer = [r \in Req |-> NoDoc]
    /\ replies = [r \in Req |-> IF r = 1 THEN << ProcessingText >> ELSE << >>]
    /\ sent = [r \in Req |-> NoDoc]
    /\ line = << >>
    /\ heading = NoResult

NextPdf ==
    \/ \E r \in Req : GeneratePdfAssemble(r)
    \/ \E r \in Req : GeneratePdfBuild(r)

SpecPdf == InitPdf /\ [][NextPdf]_vars

(***************************************************************************)
(* is_heading on lines around the threshold: blanks, a free prefix, then   *)
(* one character repeated, then blanks.                                    *)
(***************************************************************************)
Rep(c, n) == [i \in 1..n |-> c]

Heads == UNION {[1..k -> LineChars \cup {SP}] : k \in 0..MaxHead}

FillLengths ==
    (0..MaxOver)
    \cup ((HeadingThreshold - MaxHead - MaxOver)..(HeadingThreshold + MaxOver))

Lines ==
    { Rep(SP, l) \o h \o Rep(c, n) \o Rep(SP, t) :
        l \in 0..MaxPad, t \in 0..MaxPad, h \in Heads, c \in LineChars,
        n \in FillLengths }

InitClassify ==
    /\ InitPipe
    /\ api_key = "present"
    /\ scheduler = "event_loop"
    /\ line \in Lines
    /\ heading = NoResult

\* heading = is_heading(line)
IsHeading ==
    /\ heading.is_none
    /\ heading' = Returned(is_heading(line))
    /\ UNCHANGED << pipeVars, line >>

NextClassify == IsHeading

SpecClassify == InitClassify /\ [][NextClassify]_vars


(***************************************************************************)
(* Vocabulary of the properties, stated by positions in the text rather    *)
(* than by the program's own strip / split.                                *)
(***************************************************************************)
\* positions of character c in s
Positions(s, c) == {i \in 1..Len(s) : s[i] = c}

\* the k-th smallest element of a set of numbers
Nth(S, k) == CHOOSE x \in S : Cardinality({y \in S : y < x}) = k - 1

\* number of pieces separator c cuts s into, and the j-th piece
PieceCount(s, c) == Cardinality(Positions(s, c)) + 1
Piece(s, c, j) ==
    LET P == Positions(s, c) \cup {0, Len(s) + 1}
    IN  SubSeq(s, Nth(P, j) + 1, Nth(P, j + 1) - 1)

\* t is s without its leading and trailing whitespace
IsTrimOf(t, s) ==
    /\ t = << >> \/ (t[1] \notin Whitespace /\ t[Len(t)] \notin Whitespace)
    /\ \E a \in 0..Len(s) :
           /\ a + Len(t) <= Len(s)
           /\ SubSeq(s, a + 1, a + Len(t)) = t
           /\ \A i \in 1..Len(s) :
                  (i <= a \/ i > a + Len(t)) => s[i] \in Whitespace

\* length of s between its first and its last non-whitespace character
TrimLen(s) ==
    LET N == {i \in 1..Len(s) : s[i] \notin Whitespace}
    IN  IF N = {} THEN 0
        ELSE (CHOOSE x \in N : \A y \in N : y <= x)
             - (CHOOSE x \in N : \A y \in N : x <= y) + 1

HasUpper(s) == \E i \in 1..Len(s) : s[i] \in Upper
HasLower(s) == \E i \in 1..Len(s) : s[i] \in Lower

\* indices of the lines of text that hold a comma
CommaLines(text) ==
    {i \in 1..PieceCount(text, NL) : Positions(Piece(text, NL, i), COMMA) # {}}

\* the document generate_pdf makes of a text
DocOf(text) == Build(Assemble(text, detect_table_data(text)))

\* generate_pdf assembled the flowables of request r
Assembled(r) == pc[r] \in {"doc_build", "reply_document", "done"}
\* the handler of r ended, by returning or by an exception
Ended(r) == pc[r] \in {"done", "raised"}

(***************************************************************************)
(* C1: if the completion call raises, handle_text still sends a non-empty  *)
(* document built from the original user text.  Stated for a handler that  *)
(* has ended; the code lets the exception leave the handler instead.       *)
(***************************************************************************)
C1_FallbackOnServiceError ==
    \A r \in Req :
        (api_key = "present" /\ svc[r] = "error" /\ Ended(r))
            => (sent[r] # NoDoc /\ sent[r] = DocOf(update[r].text))

(***************************************************************************)
(* C2: detect_table_data returns None when fewer than 2 lines hold a comma;*)
(* otherwise one row per comma line, in line order, each row the line cut  *)
(* at its commas with every cell trimmed.                                  *)
(***************************************************************************)
C2_DetectTableRows ==
    \A r \in Req :
        Assembled(r) =>
            LET text == completed_text[r]
                C == CommaLines(text)
                n == Cardinality(C)
                td == table_data[r]
            IN  IF n < 2 THEN td = None
                ELSE /\ ~td.is_none
                     /\ Len(td.value) = n
                     /\ \A k \in 1..n :
                            LET l == Piece(text, NL, Nth(C, k))
                                row == td.value[k]
                            IN  /\ Len(row) = PieceCount(l, COMMA)
                                /\ \A j \in 1..Len(row) :
                                       IsTrimOf(row[j], Piece(l, COMMA, j))

\* a table was returned for a text with a line without a comma between two
\* comma lines, and with a cell that had whitespace around it
C2_Witness ==
    \E r \in Req :
        /\ Assembled(r)
        /\ ~table_data[r].is_none
        /\ Len(table_data[r].value) = 2
        /\ PieceCount(completed_text[r], NL) = 3
        /\ CommaLines(completed_text[r]) = {1, 3}

(***************************************************************************)
(* C3: without a table, generate_pdf's block list has exactly one block    *)
(* per line of the content, in order: a Spacer for a blank line, a heading *)
(* paragraph of the trimmed text for a heading line, a body paragraph of   *)
(* the trimmed text for any other line.                                    *)
(***************************************************************************)
C3_OneBlockPerLine ==
    \A r \in Req :
        (Assembled(r) /\ table_data[r].is_none) =>
            LET text == completed_text[r]
                els == elements[r]
            IN  /\ Len(els) = PieceCount(text, NL)
                /\ \A i \in 1..Len(els) :
                       LET l == Piece(text, NL, i)
                       IN  IF TrimLen(l) = 0 THEN els[i] = Spacer
                           ELSE /\ els[i].kind = "Paragraph"
                                /\ IsTrimOf(els[i].text, l)
                                /\ els[i].style = IF is_heading(l)
                                                  THEN heading_style
                                                  ELSE body_style

\* the blocks of "heading, blank line, body": Heading, Spacer, Paragraph
C3_Witness ==
    \E r \in Req :
        /\ Assembled(r)
        /\ table_data[r].is_none
        /\ completed_text[r] = << "A", NL, NL, "b" >>
        /\ elements[r] = << Paragraph(<< "A" >>, heading_style), Spacer,
                            Paragraph(<< "b" >>, body_style) >>

(***************************************************************************)
(* C4: is_heading is exact at the threshold: a fully upper-case line whose *)
(* trimmed length is below 60 is a heading, an upper-case line of trimmed  *)
(* length 60 or more is not, and a line without a cased character never is.*)
(***************************************************************************)
C4_HeadingThresholdExact ==
    ~heading.is_none =>
        /\ (TrimLen(line) < HeadingThreshold /\ HasUpper(line) /\ ~HasLower(line))
               => heading.value = TRUE
        /\ (TrimLen(line) >= HeadingThreshold /\ HasUpper(line) /\ ~HasLower(line))
               => heading.value = FALSE
        /\ (~HasUpper(line) /\ ~HasLower(line)) => heading.value = FALSE

\* is_heading returned False for an upper-case line of trimmed length 60
C4_Witness ==
    /\ ~heading.is_none
    /\ TrimLen(line) = HeadingThreshold
    /\ Len(line) > HeadingThreshold
    /\ HasUpper(line) /\ ~HasLower(line)
    /\ heading.value = FALSE

(***************************************************************************)
(* C5: every page of every document sent carries exactly one page-number   *)
(* decoration, and page i carries number i.  The code passes no page       *)
(* callback to doc.build.                                                  *)
(***************************************************************************)
C5_EveryPageNumbered ==
    \A r \in Req :
        \A i \in 1..Len(sent[r]) : sent[r][i].decorations = << i >>

(***************************************************************************)
(* C6: with the API key absent the process starts, the completion service  *)
(* is not called, and every text message that was handled got the document *)
(* of the user's text.  The code calls the service whatever the key.       *)
(***************************************************************************)
C6_NoKeyDisablesCompletion ==
    api_key = "absent" =>
        /\ service_calls = {}
        /\ \A r \in Req :
               (update[r].kind = "text" /\ Ended(r))
                   => sent[r] = DocOf(update[r].text)

(***************************************************************************)
(* C7: under every interleaving of the handlers' steps, what a request has *)
(* computed depends on its own text alone: its completed text is an answer *)
(* to its own message, its blocks are those of its completed text, its     *)
(* document is built from its blocks, and it is sent that document.        *)
(***************************************************************************)
C7_RequestsIsolated ==
    \A r \in Req :
        /\ pc[r] \in {"generate_pdf", "doc_build", "reply_document", "done"}
               /\ update[r].kind = "text"
               => completed_text[r] \in Completions(update[r].text)
        /\ Assembled(r) /\ update[r].kind = "text"
               => /\ table_data[r] = detect_table_data(completed_text[r])
                  /\ elements[r] = Assemble(completed_text[r], table_data[r])
        /\ pc[r] \in {"reply_document", "done"} /\ update[r].kind = "text"
               => pdf_buffer[r] = Build(elements[r])
        /\ sent[r] # NoDoc => sent[r] = pdf_buffer[r]

\* two handlers with different texts are inside generate_pdf at once, the
\* second after the first assembled its blocks
C7_Witness ==
    \E r, q \in Req :
        /\ scheduler = "any"
        /\ r # q
        /\ pc[r] = "doc_build" /\ pc[q] = "doc_build"
        /\ completed_text[r] # completed_text[q]
        /\ elements[r] # elements[q]

(***************************************************************************)
(* C8: if a table is detected the block list is exactly one Table block    *)
(* holding the detected rows; if none is detected no block is a Table.     *)
(***************************************************************************)
C8_TableModeExclusive ==
    \A r \in Req :
        Assembled(r) =>
            IF Cardinality(CommaLines(completed_text[r])) >= MinTableRows
            THEN /\ ~table_data[r].is_none
                 /\ Len(elements[r]) = 1
                 /\ elements[r][1].kind = "Table"
                 /\ elements[r][1].data = table_data[r].value
            ELSE \A i \in 1..Len(elements[r]) : elements[r][i].kind # "Table"

\* a table of two rows of two cells was assembled from a three-line content
C8_Witness ==
    \E r \in Req :
        /\ Assembled(r)
        /\ PieceCount(completed_text[r], NL) >= 2
        /\ elements[r] = << Table(<< << << "A" >>, << "b" >> >>,
                                     << << >>, << >> >> >>) >>

(***************************************************************************)
(* C9: a request whose completion call gets no answer is eventually sent   *)
(* the document of its original text.  The code passes no timeout and has  *)
(* no fallback.                                                            *)
(***************************************************************************)
C9_SilentServiceStillAnswered ==
    \A r \in Req :
        (pc[r] = "generate_content" /\ svc[r] = "no_answer")
            ~> (sent[r] # NoDoc /\ sent[r] = DocOf(update[r].text))

(***************************************************************************)
(* C10: while one handler waits for the completion service or renders, the *)
(* channel can accept another message and every other request that was     *)
(* received, has not ended and is not itself left without an answer can    *)
(* take a step.  The code blocks the event loop in the handler.            *)
(***************************************************************************)
C10_OthersNotStalled ==
    \A r \in Req :
        pc[r] \in Blocking =>
            /\ (\E q \in Req : pc[q] = "idle") => ENABLED ReceiveAny
            /\ \A q \in Req \ {r} :
                   /\ pc[q] = "queued" /\ Head(queue) = q => ENABLED Dispatch
                   /\ (pc[q] \in InFlight /\ svc[q] # "no_answer")
                          => ENABLED HandlerStep(q)

=============================================================================
